---- MODULE Spec2Model ----
(***************************************************************************)
(* State-machine model of the DrillByMenuItems component                   *)
(* (superset-frontend/src/components/Chart/DrillBy/DrillByMenuItems.tsx).  *)
(*                                                                         *)
(* Strings whose characters matter (column names, labels, search text) are *)
(* sequences of one-character strings, so that toLowerCase and includes    *)
(* are computed character by character.  A JavaScript object with an       *)
(* absent property is a record without that field.                         *)
(***************************************************************************)
EXTENDS Integers, Sequences, FiniteSets, TLC

(* ------------------------------ bounds --------------------------------- *)

\* Input events over the component's life after its mount: changes of the
\* props that feed the load, keystrokes typed and rows clicked, counted
\* together.
MaxEvents == 2

\* Rows of the list the user clicks on: the first ClickRows.
ClickRows == 2

(* ------------------------- program constants --------------------------- *)

SHOW_COLUMNS_SEARCH_THRESHOLD == 10

\* rison.encode({columns: [...]}) : the fixed field-selection query.
queryString == "(columns:!(table_name,owners.first_name,owners.last_name,created_by.first_name,created_by.last_name,created_on_humanized,changed_by.first_name,changed_by.last_name,changed_on_humanized,columns.column_name,columns.verbose_name,columns.groupby))"

(* --------------------------- string helpers ---------------------------- *)

\* String.prototype.toLowerCase, one character.
LowerChar(c) ==
  CASE c = "A" -> "a"
    [] c = "B" -> "b"
    [] OTHER -> c

\* String.prototype.toLowerCase.
toLowerCase(s) == [i \in 1..Len(s) |-> LowerChar(s[i])]

\* String.prototype.includes: needle occurs in hay as a contiguous run.
includes(hay, needle) ==
  \E i \in 0..(Len(hay) - Len(needle)) :
    \A j \in 1..Len(needle) : hay[i + j] = needle[j]

\* Array.prototype.includes on an array of values.
arrayIncludes(arr, x) == \E i \in 1..Len(arr) : arr[i] = x

(* ------------------------------ the data ------------------------------- *)

\* The raw column lists the server holds, by dataset id.
Dataset1Columns ==
  << [column_name |-> <<"a">>, verbose_name |-> <<"A", "b">>, groupby |-> TRUE],
     [column_name |-> <<"b">>, groupby |-> TRUE],
     [column_name |-> <<"c">>, verbose_name |-> <<>>, groupby |-> TRUE],
     [column_name |-> <<"d">>, verbose_name |-> <<"B">>, groupby |-> FALSE],
     [column_name |-> <<"B", "a">>, groupby |-> TRUE] >>

Dataset2Columns ==
  [i \in 1..(SHOW_COLUMNS_SEARCH_THRESHOLD + 2) |->
     IF i = 2
     THEN [column_name |-> <<"k", "b">>, verbose_name |-> <<"a", "B">>,
           groupby |-> TRUE]
     ELSE IF i = 4
     THEN [column_name |-> <<"k", "d">>, groupby |-> FALSE]
     ELSE [column_name |->
             <<"k", <<"a", "b", "c", "d", "e", "f", "g", "h", "i", "j",
                      "l", "m">>[i]>>,
           groupby |-> TRUE]]

DatasetIds == {1, 2}

\* json.result of a well-formed response for dataset id.
Result(id) ==
  IF id = 1 THEN [id |-> 1, table_name |-> "t1", columns |-> Dataset1Columns]
  ELSE [id |-> 2, table_name |-> "t2", columns |-> Dataset2Columns]

\* The state of `dataset` before any response: useState<Dataset>().
Undefined == [undefined |-> TRUE]

(* ------------------------------ the props ------------------------------ *)

\* formData.datasource is "<id>__<type>"; the record holds the two parts of
\* the string that split('__') separates.
FormDatas ==
  { [datasource |-> [id |-> 1, type |-> "table"], viz_type |-> "echarts_bar",
     groupby |-> << <<"b">> >>, x_axis |-> <<"c">>],
    [datasource |-> [id |-> 2, type |-> "table"], viz_type |-> "echarts_bar"],
    [datasource |-> [id |-> 1, type |-> "table"], viz_type |-> "big_number"] }

\* drillByConfig: absent, or an anchor with its group-by field name.
DrillByConfigs ==
  { Undefined,
    [groupbyFieldName |-> "", filters |-> <<>>],
    [groupbyFieldName |-> "groupby", filters |-> <<>>] }

\* excludedColumns, after ensureIsArray (absent is the empty list).
ExcludedLists ==
  { <<>>, << [column_name |-> <<"a">>], [column_name |-> <<"k", "c">>] >> }

\* What the user can type into the search input.
TypedTexts == { <<"B">>, <<"a", "b">> }

\* getChartMetadataRegistry().get(viz_type)?.behaviors
Behaviors(viz_type) ==
  CASE viz_type = "echarts_bar" ->
         {"INTERACTIVE_CHART", "DRILL_TO_DETAIL", "DRILL_BY"}
    [] viz_type = "big_number" -> {"DRILL_TO_DETAIL"}
    [] OTHER -> {}

(* ------------------------------ the state ------------------------------ *)

VARIABLES
  \* props
  open, formData, drillByConfig, excludedColumns,
  \* module-level: getExtensionsRegistry().get('load.drillby.options')
  loadDrillByOptions,
  \* useState
  isLoadingColumns, searchInput, dataset, columns, showModal, currentColumn,
  \* the text in the uncontrolled search Input (ref.current)
  inputValue,
  \* pending debounce timers in the order they expire: each holds the value
  \* it will pass to setSearchInput; liveTimer is TRUE when the last one
  \* belongs to the handleInput of the current render
  timers, liveTimer,
  \* runs of loadOptions suspended at their await, oldest first
  inflight,
  \* the shared Map of cachedSupersetGet: endpoint -> promise
  supersetGetCache,
  \* outbound calls: addDangerToast, logging.error and onClick, counted, the
  \* arguments of the calls of onSelection, and rejections of the promise
  \* loadOptions returns
  toasts, logs, selections, clicks, rejections,
  \* history: input events so far, loads started, loads that failed, the
  \* outcome of the newest load and of the latest completion, the load whose
  \* response was committed last
  events, loadsStarted, failedLoads, newestStatus, lastCompletion, committed,
  \* history: a keystroke was typed since the submenu was last closed
  typedThisCycle,
  \* history: the row and the openNewModal prop of the latest click
  lastClick,
  \* history: the load started last is in flight and was started since the
  \* submenu was last opened
  newestSinceOpen

props == <<open, formData, drillByConfig, excludedColumns,
           loadDrillByOptions>>
hooks == <<isLoadingColumns, searchInput, dataset, columns, showModal,
           currentColumn>>
search == <<inputValue, timers, liveTimer, typedThisCycle>>
loading == <<inflight, supersetGetCache, toasts, logs, rejections,
             loadsStarted, failedLoads, newestStatus, lastCompletion,
             committed>>
calls == <<selections, clicks, lastClick>>
vars == <<props, hooks, search, loading, calls, events, newestSinceOpen>>

(* --------------------------- derived values ---------------------------- *)

\* drillByConfig?.groupbyFieldName ?? '' (an absent name and '' are both
\* falsy, and the load never starts with either).
groupbyFieldNameOf(cfg) ==
  IF "groupbyFieldName" \in DOMAIN cfg THEN cfg.groupbyFieldName ELSE ""

hasDrillByOf(cfg) == groupbyFieldNameOf(cfg) # ""

handlesDimensionContextMenuOf(fd) == "DRILL_BY" \in Behaviors(fd.viz_type)

hasDrillBy == hasDrillByOf(drillByConfig)

handlesDimensionContextMenu == handlesDimensionContextMenuOf(formData)

\* showSearch with the threshold included.
showSearchFromThreshold(cols) ==
  loadDrillByOptions \/ Len(cols) >= SHOW_COLUMNS_SEARCH_THRESHOLD

showSearchOf(cols) ==
  loadDrillByOptions \/ Len(cols) > SHOW_COLUMNS_SEARCH_THRESHOLD

showSearch == showSearchOf(columns)

\* column.verbose_name || column.column_name
DisplayLabel(column) ==
  IF "verbose_name" \in DOMAIN column /\ column.verbose_name # <<>>
  THEN column.verbose_name
  ELSE column.column_name

\* filteredColumns comparing the label as written.
filteredColumnsCaseSensitive(cols, text) ==
  SelectSeq(cols, LAMBDA column :
    includes(DisplayLabel(column), toLowerCase(text)))

filteredColumnsOf(cols, text) ==
  SelectSeq(cols, LAMBDA column :
    includes(toLowerCase(DisplayLabel(column)), toLowerCase(text)))

filteredColumns == filteredColumnsOf(columns, searchInput)

\* The submenu testing the list before the loading flag.
SubmenuListFirst ==
  [item |-> "drill-by-submenu",
   search |-> showSearch,
   body |-> IF Len(filteredColumns) # 0 THEN "List"
            ELSE IF isLoadingColumns THEN "Loading"
            ELSE "No columns found",
   itemCount |-> Len(filteredColumns),
   modal |-> showModal]

\* What the submenu holds.
Submenu ==
  [item |-> "drill-by-submenu",
   search |-> showSearch,
   body |-> IF isLoadingColumns THEN "Loading"
            ELSE IF Len(filteredColumns) # 0 THEN "List"
            ELSE "No columns found",
   itemCount |-> IF ~isLoadingColumns THEN Len(filteredColumns) ELSE 0,
   modal |-> showModal]

\* Render testing the anchor before the chart type.
RenderAnchorFirst ==
  IF ~hasDrillBy
  THEN [item |-> "drill-by-disabled",
        tooltip |-> "Drill by is not available for this data point"]
  ELSE IF ~handlesDimensionContextMenu
  THEN [item |-> "drill-by-disabled",
        tooltip |-> "Drill by is not yet supported for this chart type"]
  ELSE Submenu

\* What the component returns: the disabled item with its tooltip, or the
\* submenu with its body.
Render ==
  IF ~handlesDimensionContextMenu
  THEN [item |-> "drill-by-disabled",
        tooltip |-> "Drill by is not yet supported for this chart type"]
  ELSE IF ~hasDrillBy
  THEN [item |-> "drill-by-disabled",
        tooltip |-> "Drill by is not available for this data point"]
  ELSE Submenu

\* The search Input is mounted.
InputShown == handlesDimensionContextMenu /\ hasDrillBy /\ showSearch

(* ------------------------------ the load ------------------------------- *)

\* Number(formData.datasource.split('__')[0])
datasetIdOf(fd) == fd.datasource.id

\* The cache key of an endpoint: the dataset path and the ?q= part ("" when
\* the endpoint has none).
Endpoint(datasetId, q) == [dataset |-> datasetId, q |-> q]

MapSet(m, k, v) == [x \in DOMAIN m \cup {k} |-> IF x = k THEN v ELSE m[x]]

MapDelete(m, k) == [x \in DOMAIN m \ {k} |-> m[x]]

\* ensureIsArray(formData[name])
FieldOf(fd, name) == IF name \in DOMAIN fd THEN fd[name] ELSE <<>>

\* CandidateColumns without the test against formData.x_axis.
CandidateColumnsSkipXAxis(result, fd, cfg, ex) ==
  SelectSeq(
    SelectSeq(result.columns, LAMBDA column : column.groupby),
    LAMBDA column :
      /\ ~arrayIncludes(FieldOf(fd, groupbyFieldNameOf(cfg)),
                        column.column_name)
      /\ \A i \in 1..Len(ex) : ex[i].column_name # column.column_name)

\* ensureIsArray(result.columns).filter(groupby).filter(not selected, not
\* the x axis, not excluded)
CandidateColumns(result, fd, cfg, ex) ==
  SelectSeq(
    SelectSeq(result.columns, LAMBDA column : column.groupby),
    LAMBDA column :
      /\ ~arrayIncludes(FieldOf(fd, groupbyFieldNameOf(cfg)),
                        column.column_name)
      /\ ("x_axis" \in DOMAIN fd => column.column_name # fd.x_axis)
      /\ \A i \in 1..Len(ex) : ex[i].column_name # column.column_name)

\* The state a run of loadOptions reads and writes.
Cur ==
  [isLoadingColumns |-> isLoadingColumns, dataset |-> dataset,
   columns |-> columns, inflight |-> inflight,
   supersetGetCache |-> supersetGetCache, toasts |-> toasts, logs |-> logs,
   rejections |-> rejections, loadsStarted |-> loadsStarted,
   failedLoads |-> failedLoads, newestStatus |-> newestStatus,
   lastCompletion |-> lastCompletion, committed |-> committed]

Install(L) ==
  /\ isLoadingColumns' = L.isLoadingColumns
  /\ dataset' = L.dataset
  /\ columns' = L.columns
  /\ inflight' = L.inflight
  /\ supersetGetCache' = L.supersetGetCache
  /\ toasts' = L.toasts
  /\ logs' = L.logs
  /\ rejections' = L.rejections
  /\ loadsStarted' = L.loadsStarted
  /\ failedLoads' = L.failedLoads
  /\ newestStatus' = L.newestStatus
  /\ lastCompletion' = L.lastCompletion
  /\ committed' = L.committed

\* loadOptionsResume with setIsLoadingColumns(false) at the end of the try
\* block, not in a finally.
loadOptionsResumeNoFinally(L, ld, outcome) ==
  LET id == datasetIdOf(ld.formData)
      caught(M) ==
        [M EXCEPT !.logs = @ + 1,
                  !.supersetGetCache = MapDelete(@, Endpoint(id, "")),
                  !.toasts = @ + 1]
  IN  CASE outcome = "ok" ->
             [L EXCEPT !.dataset = Result(id),
                       !.columns = CandidateColumns(Result(id), ld.formData,
                                     ld.drillByConfig, ld.excludedColumns),
                       !.isLoadingColumns = FALSE]
        [] outcome = "noresult" -> caught([L EXCEPT !.dataset = Undefined])
        [] OTHER -> caught(L)

\* loadOptionsResume with the reading of the response after the try block:
\* the TypeError of a response without result rejects the promise.
loadOptionsResumeUncaught(L, ld, outcome) ==
  LET id == datasetIdOf(ld.formData)
      caught(M) ==
        [M EXCEPT !.logs = @ + 1,
                  !.supersetGetCache = MapDelete(@, Endpoint(id, "")),
                  !.toasts = @ + 1,
                  !.isLoadingColumns = FALSE]
  IN  CASE outcome = "ok" ->
             [L EXCEPT !.dataset = Result(id),
                       !.columns = CandidateColumns(Result(id), ld.formData,
                                     ld.drillByConfig, ld.excludedColumns),
                       !.isLoadingColumns = FALSE]
        [] outcome = "noresult" ->
             [L EXCEPT !.dataset = Undefined,
                       !.isLoadingColumns = FALSE,
                       !.rejections = @ + 1]
        [] OTHER -> caught(L)

\* loadOptions from its await to its end, for the load ld whose promise
\* settled with outcome: "ok" (json.result is the dataset), "noresult" (json
\* has no result) or "rejected".
loadOptionsResume(L, ld, outcome) ==
  LET id == datasetIdOf(ld.formData)
      caught(M) ==
        [M EXCEPT !.logs = @ + 1,
                  !.supersetGetCache = MapDelete(@, Endpoint(id, "")),
                  !.toasts = @ + 1,
                  !.isLoadingColumns = FALSE]
  IN  CASE outcome = "ok" ->
             [L EXCEPT !.dataset = Result(id),
                       !.columns = CandidateColumns(Result(id), ld.formData,
                                     ld.drillByConfig, ld.excludedColumns),
                       !.isLoadingColumns = FALSE]
        [] outcome = "noresult" -> caught([L EXCEPT !.dataset = Undefined])
        [] OTHER -> caught(L)

\* History of a completion.
Observe(L, ld, outcome, newest) ==
  LET status == IF outcome = "ok" THEN "ok" ELSE "failed"
  IN  [L EXCEPT !.failedLoads = IF outcome = "ok" THEN @ ELSE @ + 1,
                !.lastCompletion = status,
                !.newestStatus = IF newest THEN status ELSE @,
                !.committed = IF outcome = "ok" THEN <<ld>> ELSE @]

Settled(L, ld, outcome, newest) ==
  Observe(loadOptionsResume(L, ld, outcome), ld, outcome, newest)

\* cachedSupersetGet({endpoint}): the promise cached under the endpoint, or a
\* new request cached under it.
cachedSupersetGet(cache, key) ==
  IF key \in DOMAIN cache THEN cache ELSE MapSet(cache, key, "pending")

\* loadOptions from its start to its await (and, when the promise it awaits
\* has settled already, to its end).
loadOptionsStart(L, fd, cfg, ex) ==
  LET ld == [formData |-> fd, drillByConfig |-> cfg, excludedColumns |-> ex]
      key == Endpoint(datasetIdOf(fd), queryString)
      L1 == [L EXCEPT !.isLoadingColumns = TRUE,
                      !.loadsStarted = @ + 1,
                      !.newestStatus = "pending"]
  IN  IF loadDrillByOptions
      THEN [L1 EXCEPT !.inflight = Append(@, ld)]
      ELSE LET cache == cachedSupersetGet(L1.supersetGetCache, key)
               L2 == [L1 EXCEPT !.supersetGetCache = cache]
           IN  IF cache[key] = "pending"
               THEN [L2 EXCEPT !.inflight = Append(@, ld)]
               ELSE Settled(L2, ld, cache[key], TRUE)

\* The effect calling loadOptions without the guard of line 196.
LoadEffectUnguarded(L, fd, cfg, ex) ==
  loadOptionsStart(L, fd, cfg, ex)

\* The effect of lines 158-206: it runs loadOptions when the guard passes.
LoadEffect(L, fd, cfg, ex) ==
  IF handlesDimensionContextMenuOf(fd) /\ hasDrillByOf(cfg)
  THEN loadOptionsStart(L, fd, cfg, ex)
  ELSE L

(* ------------------------------- Init ---------------------------------- *)

\* The useState initial values, before the effects of the mount.
Mounted ==
  [isLoadingColumns |-> TRUE, dataset |-> Undefined, columns |-> <<>>,
   inflight |-> <<>>, supersetGetCache |-> <<>>, toasts |-> 0, logs |-> 0,
   rejections |-> 0, loadsStarted |-> 0, failedLoads |-> 0,
   newestStatus |-> "none", lastCompletion |-> "none", committed |-> <<>>]

\* The component after its mount: the props it was given, the initial state
\* and the effects of the first render.
Init ==
  /\ open = FALSE
  /\ formData \in FormDatas
  /\ drillByConfig \in DrillByConfigs
  /\ excludedColumns \in ExcludedLists
  /\ loadDrillByOptions \in BOOLEAN
  /\ searchInput = <<>>
  /\ showModal = FALSE
  /\ currentColumn = Undefined
  /\ inputValue = <<>>
  /\ timers = <<>>
  /\ liveTimer = FALSE
  /\ events = 0
  /\ typedThisCycle = FALSE
  /\ selections = <<>>
  /\ clicks = 0
  /\ lastClick = <<>>
  /\ newestSinceOpen = FALSE
  /\ LET L == LoadEffect(Mounted, formData, drillByConfig, excludedColumns)
     IN  /\ isLoadingColumns = L.isLoadingColumns
         /\ dataset = L.dataset
         /\ columns = L.columns
         /\ inflight = L.inflight
         /\ supersetGetCache = L.supersetGetCache
         /\ toasts = L.toasts
         /\ logs = L.logs
         /\ rejections = L.rejections
         /\ loadsStarted = L.loadsStarted
         /\ failedLoads = L.failedLoads
         /\ newestStatus = L.newestStatus
         /\ lastCompletion = L.lastCompletion
         /\ committed = L.committed

(* ------------------------------ actions -------------------------------- *)

\* A render replaces handleInput by a new debounced function, and an Input
\* that is no longer rendered loses its text.  Last conjunct of an action.
Rendered(text) ==
  /\ liveTimer' = FALSE
  /\ inputValue' = IF InputShown' THEN text ELSE <<>>

\* The parent opens the submenu: useEffect([open]) focuses the input.
Open ==
  /\ ~open
  /\ open' = TRUE
  /\ newestSinceOpen' = FALSE
  /\ UNCHANGED <<formData, drillByConfig, excludedColumns,
                 loadDrillByOptions, hooks, timers, events, typedThisCycle,
                 loading, calls>>
  /\ Rendered(inputValue)

\* The parent closes the submenu: useEffect([open]) resets the search.
Close ==
  /\ open
  /\ open' = FALSE
  /\ searchInput' = <<>>
  /\ typedThisCycle' = FALSE
  /\ newestSinceOpen' = FALSE
  /\ UNCHANGED <<formData, drillByConfig, excludedColumns,
                 loadDrillByOptions, isLoadingColumns, dataset, columns,
                 showModal, currentColumn, timers, events, loading, calls>>
  /\ Rendered(<<>>)

\* The history of the load started last, after a step that may have started
\* or completed loads.
Tracked ==
  newestSinceOpen' =
    /\ newestStatus' = "pending"
    /\ IF loadsStarted' > loadsStarted THEN open ELSE newestSinceOpen

\* The parent passes a new formData object.
SetFormData(fd) ==
  /\ events < MaxEvents
  /\ events' = events + 1
  /\ formData' = fd
  /\ Install(LoadEffect(Cur, fd, drillByConfig, excludedColumns))
  /\ UNCHANGED <<open, drillByConfig, excludedColumns,
                 loadDrillByOptions, searchInput, showModal, currentColumn,
                 timers, typedThisCycle, calls>>
  /\ Rendered(inputValue)
  /\ Tracked

\* The parent passes another drillByConfig; the effect runs again when its
\* groupbyFieldName differs.
SetDrillByConfig(cfg) ==
  /\ cfg # drillByConfig
  /\ events < MaxEvents
  /\ events' = events + 1
  /\ drillByConfig' = cfg
  /\ IF groupbyFieldNameOf(cfg) # groupbyFieldNameOf(drillByConfig)
     THEN Install(LoadEffect(Cur, formData, cfg, excludedColumns))
     ELSE UNCHANGED <<isLoadingColumns, dataset, columns, loading>>
  /\ UNCHANGED <<open, formData, excludedColumns,
                 loadDrillByOptions, searchInput, showModal, currentColumn,
                 timers, typedThisCycle, calls>>
  /\ Rendered(inputValue)
  /\ Tracked

\* The parent passes a new excludedColumns array.
SetExcludedColumns(ex) ==
  /\ events < MaxEvents
  /\ events' = events + 1
  /\ excludedColumns' = ex
  /\ Install(LoadEffect(Cur, formData, drillByConfig, ex))
  /\ UNCHANGED <<open, formData, drillByConfig,
                 loadDrillByOptions, searchInput, showModal, currentColumn,
                 timers, typedThisCycle, calls>>
  /\ Rendered(inputValue)
  /\ Tracked

\* The parent renders again with the same props.
Rerender ==
  /\ liveTimer
  /\ UNCHANGED <<props, hooks, timers, events, typedThisCycle, loading, calls,
                 newestSinceOpen>>
  /\ Rendered(inputValue)

\* The user changes the text of the search Input: onChange calls the
\* handleInput of the current render, which (re)starts its timer.
Keystroke(value) ==
  /\ open
  /\ InputShown
  /\ value # inputValue
  /\ events < MaxEvents
  /\ inputValue' = value
  /\ timers' = IF liveTimer
               THEN [timers EXCEPT ![Len(timers)] = value]
               ELSE Append(timers, value)
  /\ liveTimer' = TRUE
  /\ events' = events + 1
  /\ typedThisCycle' = TRUE
  /\ UNCHANGED <<props, hooks, loading, calls,
                 newestSinceOpen>>

\* The oldest debounce timer expires: setSearchInput(value).
TimerFires ==
  /\ timers # <<>>
  /\ searchInput' = Head(timers)
  /\ timers' = Tail(timers)
  /\ liveTimer' = (liveTimer /\ Len(timers) > 1 /\ Head(timers) = searchInput)
  /\ UNCHANGED <<props, isLoadingColumns, dataset, columns, showModal,
                 currentColumn, inputValue, events, typedThisCycle, loading,
                 calls,
                 newestSinceOpen>>

\* The promise of an extension load settles, and that load resumes.
ExtensionSettles(i, outcome) ==
  /\ loadDrillByOptions
  /\ i \in 1..Len(inflight)
  /\ Install(Settled(
       [Cur EXCEPT !.inflight =
          SubSeq(inflight, 1, i - 1) \o SubSeq(inflight, i + 1, Len(inflight))],
       inflight[i], outcome, i = Len(inflight) /\ newestStatus = "pending"))
  /\ UNCHANGED <<props, searchInput, showModal, currentColumn, timers,
                 events, typedThisCycle, calls>>
  /\ Rendered(inputValue)
  /\ Tracked

\* The loads awaiting a promise resume in the order they awaited it.
RECURSIVE ResumeAll(_, _, _, _)
ResumeAll(L, loads, outcome, newest) ==
  IF loads = <<>> THEN L
  ELSE ResumeAll(Settled(L, Head(loads), outcome, newest /\ Len(loads) = 1),
                 Tail(loads), outcome, newest)

\* The request cached under key settles, and the loads awaiting it resume.
FetchSettles(key, outcome) ==
  /\ key \in DOMAIN supersetGetCache
  /\ supersetGetCache[key] = "pending"
  /\ LET awaits(ld) == Endpoint(datasetIdOf(ld.formData), queryString) = key
     IN  Install(ResumeAll(
           [Cur EXCEPT !.supersetGetCache = MapSet(@, key, outcome),
                       !.inflight = SelectSeq(@, LAMBDA ld : ~awaits(ld))],
           SelectSeq(inflight, awaits), outcome,
           newestStatus = "pending" /\ awaits(inflight[Len(inflight)])))
  /\ UNCHANGED <<props, searchInput, showModal, currentColumn, timers,
                 events, typedThisCycle, calls>>
  /\ Rendered(inputValue)
  /\ Tracked

\* handleSelection calling onSelection only when it opens the detail view.
ClickSelectsWithModalOnly(i, openNewModal) ==
  /\ open
  /\ Render.item = "drill-by-submenu"
  /\ Render.body = "List"
  /\ i \in 1..Len(filteredColumns)
  /\ events < MaxEvents
  /\ events' = events + 1
  /\ clicks' = clicks + 1
  /\ selections' =
       IF openNewModal
       THEN Append(selections, [column |-> filteredColumns[i],
                                drillByConfig |-> drillByConfig])
       ELSE selections
  /\ lastClick' = <<[row |-> i, openNewModal |-> openNewModal]>>
  /\ currentColumn' = filteredColumns[i]
  /\ showModal' = (openNewModal \/ showModal)
  /\ UNCHANGED <<props, isLoadingColumns, searchInput, dataset, columns,
                 timers, typedThisCycle, loading,
                 newestSinceOpen>>
  /\ Rendered(inputValue)

\* The user clicks the row of filteredColumns[i]: handleSelection, with the
\* openNewModal prop of the render the row belongs to.
Click(i, openNewModal) ==
  /\ open
  /\ Render.item = "drill-by-submenu"
  /\ Render.body = "List"
  /\ i \in 1..Len(filteredColumns)
  /\ events < MaxEvents
  /\ events' = events + 1
  /\ clicks' = clicks + 1
  /\ selections' = Append(selections, [column |-> filteredColumns[i],
                                       drillByConfig |-> drillByConfig])
  /\ lastClick' = <<[row |-> i, openNewModal |-> openNewModal]>>
  /\ currentColumn' = filteredColumns[i]
  /\ showModal' = (openNewModal \/ showModal)
  /\ UNCHANGED <<props, isLoadingColumns, searchInput, dataset, columns,
                 timers, typedThisCycle, loading,
                 newestSinceOpen>>
  /\ Rendered(inputValue)

\* closeModal also forgetting the selected dimension.
CloseModalClearsColumn ==
  /\ Render.item = "drill-by-submenu"
  /\ showModal
  /\ showModal' = FALSE
  /\ currentColumn' = Undefined
  /\ UNCHANGED <<props, isLoadingColumns, searchInput, dataset, columns,
                 timers, events, typedThisCycle, loading, calls,
                 newestSinceOpen>>
  /\ Rendered(inputValue)

\* The detail view calls onHideModal: closeModal.
CloseModal ==
  /\ Render.item = "drill-by-submenu"
  /\ showModal
  /\ showModal' = FALSE
  /\ UNCHANGED <<props, isLoadingColumns, searchInput, dataset, columns,
                 currentColumn, timers, events, typedThisCycle, loading, calls,
                 newestSinceOpen>>
  /\ Rendered(inputValue)

Outcomes == {"ok", "noresult", "rejected"}

Next ==
  \/ Open
  \/ Close
  \/ \E fd \in FormDatas : SetFormData(fd)
  \/ \E cfg \in DrillByConfigs : SetDrillByConfig(cfg)
  \/ \E ex \in ExcludedLists : SetExcludedColumns(ex)
  \/ Rerender
  \/ \E value \in TypedTexts : Keystroke(value)
  \/ TimerFires
  \/ \E i \in 1..(MaxEvents + 1), outcome \in Outcomes :
       ExtensionSettles(i, outcome)
  \/ \E id \in DatasetIds, outcome \in Outcomes :
       FetchSettles(Endpoint(id, queryString), outcome)
  \/ \E i \in 1..ClickRows, openNewModal \in BOOLEAN : Click(i, openNewModal)
  \/ CloseModal

Spec == Init /\ [][Next]_vars

TypeOK ==
  /\ open \in BOOLEAN
  /\ isLoadingColumns \in BOOLEAN
  /\ searchInput \in TypedTexts \cup {<<>>}
  /\ Len(timers) <= MaxEvents
  /\ Len(inflight) <= MaxEvents + 1
  /\ newestSinceOpen \in BOOLEAN

(* ------------------------------ the claims ----------------------------- *)

\* The submenu is what the component renders.
SubmenuRendered == Render.item = "drill-by-submenu"

\* C1: once the load started last (for the current inputs) has succeeded and
\* no load is in flight, the dataset and the candidate set are those of its
\* response, whatever the order in which the loads completed.
C1_StaleLoadSuppressed ==
  (SubmenuRendered /\ inflight = <<>> /\ newestStatus = "ok") =>
    /\ dataset = Result(datasetIdOf(formData))
    /\ columns = CandidateColumns(Result(datasetIdOf(formData)), formData,
                                  drillByConfig, excludedColumns)

\* C2: a keystroke typed before the submenu was closed is never applied
\* afterwards: while no keystroke has been typed since the last close, the
\* effective search text is empty.
C2_CloseCancelsDebounce == ~typedThisCycle => searchInput = <<>>

\* C3: while the submenu is closed, the effective search text is empty.
C3_ClosedSearchEmpty == ~open => searchInput = <<>>

\* The k-th smallest member of a set of indices.
NthOf(S, k) == CHOOSE i \in S : Cardinality({j \in S : j <= i}) = k

\* sel is the elements of all at the indices Kept, in the order of all.
IsSelection(sel, all, Kept) ==
  /\ Len(sel) = Cardinality(Kept)
  /\ \A k \in 1..Len(sel) : sel[k] = all[NthOf(Kept, k)]

\* The names the form context holds under the anchor's group-by field.
SelectedNames(ld) ==
  LET name == ld.drillByConfig.groupbyFieldName
      value == IF name \in DOMAIN ld.formData THEN ld.formData[name] ELSE <<>>
  IN  {value[i] : i \in DOMAIN value}

ExcludedNames(ld) ==
  {ld.excludedColumns[i].column_name : i \in DOMAIN ld.excludedColumns}

Eligible(column, ld) ==
  /\ column.groupby = TRUE
  /\ column.column_name \notin SelectedNames(ld)
  /\ ~("x_axis" \in DOMAIN ld.formData
        /\ ld.formData.x_axis = column.column_name)
  /\ column.column_name \notin ExcludedNames(ld)

\* C4: the candidate set a successful load committed is the raw dimensions
\* of its response, in their order, that are groupby dimensions and are
\* neither selected in the anchor's group-by field, nor the x axis, nor
\* excluded.
C4_CandidateSetExact ==
  committed # <<>> =>
    LET ld == committed[1]
        raw == Result(ld.formData.datasource.id).columns
    IN  IsSelection(columns, raw,
                    {i \in 1..Len(raw) : Eligible(raw[i], ld)})

\* A load committed the one dimension of dataset 1 that is a groupby
\* dimension, not selected, not the x axis and not excluded.
C4_Witness ==
  /\ committed # <<>>
  /\ committed[1].excludedColumns # <<>>
  /\ "x_axis" \in DOMAIN committed[1].formData
  /\ Len(columns) = 1
  /\ columns[1].column_name = <<"B", "a">>

\* The two characters are the same letter, whatever their case.
SameLetter(x, y) ==
  \/ x = y
  \/ <<x, y>> \in {<<"a", "A">>, <<"A", "a">>, <<"b", "B">>, <<"B", "b">>}

ContainsIgnoringCase(label, text) ==
  \E start \in 0..(Len(label) - Len(text)) :
    \A j \in 1..Len(text) : SameLetter(label[start + j], text[j])

LabelOf(column) ==
  IF "verbose_name" \in DOMAIN column
  THEN IF Len(column.verbose_name) > 0 THEN column.verbose_name
       ELSE column.column_name
  ELSE column.column_name

\* C5: the visible set is the candidates, in their order, whose display
\* label contains the search text case-insensitively; the empty search text
\* yields the whole candidate set.
C5_VisibleSetExact ==
  /\ IsSelection(filteredColumns, columns,
       {i \in 1..Len(columns) :
          ContainsIgnoringCase(LabelOf(columns[i]), searchInput)})
  /\ searchInput = <<>> => filteredColumns = columns

\* A search text that matches one candidate only through the case-folding
\* and leaves others out.
C5_Witness ==
  /\ searchInput = <<"a", "b">>
  /\ Len(filteredColumns) >= 1
  /\ Len(filteredColumns) < Len(columns)
  /\ ~includes(LabelOf(filteredColumns[1]), searchInput)

\* C6: the cache holds no rejected request: after a fetch failed, no entry
\* is left under the key the fetch was cached under.
C6_FailedFetchEvicted ==
  \A key \in DOMAIN supersetGetCache : supersetGetCache[key] # "rejected"

\* C7: when the latest completion is a failure and the loading flag is
\* clear, the submenu shows the "no results" placeholder.
C7_FailureShowsNoResults ==
  (SubmenuRendered /\ lastCompletion = "failed" /\ ~isLoadingColumns) =>
    /\ filteredColumns = <<>>
    /\ Render.body = "No columns found"

\* C8: once no load is in flight, the loading flag is clear, whether the
\* loads succeeded, failed or met a malformed response.
C8_LoadingClears ==
  (inflight = <<>> /\ (loadsStarted > 0 \/ SubmenuRendered)) =>
    ~isLoadingColumns

\* A load has succeeded and a later one has met a malformed response.
C8_Witness ==
  /\ inflight = <<>>
  /\ loadsStarted >= 2
  /\ committed # <<>>
  /\ lastCompletion = "failed"
  /\ dataset = Undefined
  /\ ~isLoadingColumns

\* C9: every failed load has emitted one notification and one log entry,
\* the successful ones none, and no failure has left the load as a rejection.
C9_OneToastPerFailure ==
  /\ toasts = failedLoads
  /\ logs = failedLoads
  /\ rejections = 0

\* A load has succeeded and two have failed.
C9_Witness ==
  /\ committed # <<>>
  /\ failedLoads = 2
  /\ toasts = 2
  /\ logs = 2

NotSupported == "Drill by is not yet supported for this chart type"

NotAvailable == "Drill by is not available for this data point"

\* The anchor names a group-by field.
AnchorNamesField ==
  /\ drillByConfig # Undefined
  /\ drillByConfig.groupbyFieldName # ""

\* C10: without the drill-by behaviour the disabled item is rendered with
\* the "not supported" tooltip, whatever the anchor; with it and without a
\* group-by field name, the disabled item with the "not available" tooltip;
\* the submenu is rendered only with both.
C10_EntryGuard ==
  LET supported == "DRILL_BY" \in Behaviors(formData.viz_type)
  IN  /\ ~supported =>
           /\ Render.item = "drill-by-disabled"
           /\ Render.tooltip = NotSupported
      /\ (supported /\ ~AnchorNamesField) =>
           /\ Render.item = "drill-by-disabled"
           /\ Render.tooltip = NotAvailable
      /\ SubmenuRendered <=> (supported /\ AnchorNamesField)

\* The chart type has changed to one that lacks drill-by, after a load was
\* started, while the anchor names a group-by field.
C10_Witness ==
  /\ loadsStarted > 0
  /\ "DRILL_BY" \notin Behaviors(formData.viz_type)
  /\ AnchorNamesField
  /\ Render.tooltip = NotSupported

\* C11: a click on a row calls onClick once and onSelection once with the
\* row's dimension and the anchor, and records the dimension; it opens the
\* detail view exactly when openNewModal is true (a view already open stays).
C11_ClickSelects ==
  [][clicks' # clicks =>
       LET d == filteredColumns[lastClick'[1].row]
       IN  /\ clicks' = clicks + 1
           /\ selections' =
                Append(selections, [column |-> d, drillByConfig |-> drillByConfig])
           /\ currentColumn' = d
           /\ ~showModal => (showModal' <=> lastClick'[1].openNewModal)
           /\ showModal => showModal']_vars

\* A row was clicked with openNewModal false: the selection callback fired
\* and no detail view is open.
C11_Witness ==
  /\ lastClick # <<>>
  /\ ~lastClick[1].openNewModal
  /\ Len(selections) = 1
  /\ selections[1].column = currentColumn
  /\ clicks = 1
  /\ ~showModal

\* C12: the submenu shows the search bar exactly when an extension loader is
\* registered or the candidate set, before the search filter, has more than
\* SHOW_COLUMNS_SEARCH_THRESHOLD dimensions.
C12_SearchBarShown ==
  SubmenuRendered =>
    (Render.search <=>
       (loadDrillByOptions \/
        Len(columns) >= SHOW_COLUMNS_SEARCH_THRESHOLD + 1))

\* Without an extension loader, a typed filter has brought the visible set
\* of more than ten candidates down to ten or fewer, and the bar is shown.
C12_Witness ==
  /\ SubmenuRendered
  /\ ~loadDrillByOptions
  /\ Len(columns) > SHOW_COLUMNS_SEARCH_THRESHOLD
  /\ searchInput # <<>>
  /\ Len(filteredColumns) <= SHOW_COLUMNS_SEARCH_THRESHOLD
  /\ Render.search

\* Without an extension loader, exactly ten candidates and no search bar.
C12_AtThreshold ==
  /\ SubmenuRendered
  /\ ~loadDrillByOptions
  /\ Len(columns) = SHOW_COLUMNS_SEARCH_THRESHOLD
  /\ ~Render.search

\* C13: no load is started while a load started earlier in the same open
\* cycle has not completed.
C13_SingleFlight ==
  [][(open /\ loadsStarted' > loadsStarted) => ~newestSinceOpen]_vars

\* C14: at most one debounced update is pending.
C14_SingleSlotTimer == Len(timers) <= 1

\* C15: a step that closes the detail view changes the modal-open flag only:
\* the selected dimension, the candidate set, the dataset, the search text,
\* the loading flag and the open state stay, and no callback is invoked.
C15_CloseModalFrame ==
  [][(showModal /\ ~showModal') =>
       UNCHANGED <<currentColumn, columns, dataset, searchInput,
                   isLoadingColumns, open, selections, clicks, toasts,
                   logs>>]_vars

\* The detail view was opened by the latest click and has been closed since.
C15_Witness ==
  /\ ~showModal
  /\ lastClick # <<>>
  /\ lastClick[1].openNewModal
  /\ currentColumn # Undefined
  /\ open

C17_BodyOneOfThree ==
  SubmenuRendered =>
    LET visible == {i \in 1..Len(columns) :
                      ContainsIgnoringCase(LabelOf(columns[i]), searchInput)}
    IN  /\ Render.body \in {"Loading", "List", "No columns found"}
        /\ isLoadingColumns => Render.body = "Loading"
        /\ (~isLoadingColumns /\ visible # {}) =>
              /\ Render.body = "List"
              /\ Render.itemCount = Cardinality(visible)
        /\ (~isLoadingColumns /\ visible = {}) =>
              Render.body = "No columns found"

\* A reload is in flight while the candidate set of an earlier load is
\* still there.
C17_Witness ==
  /\ SubmenuRendered
  /\ open
  /\ isLoadingColumns
  /\ columns # <<>>
  /\ Render.body = "Loading"

\* C18: while the load started last has not completed the loading flag is
\* set, and the submenu shows the loading indicator.
C18_LoadingWhileNewestPending ==
  newestStatus = "pending" =>
    /\ isLoadingColumns
    /\ SubmenuRendered => Render.body = "Loading"

\* C19: while the detail view is open a selected dimension is recorded and a
\* loaded dataset is present.
C19_ModalHasDataset ==
  (SubmenuRendered /\ showModal) =>
    /\ currentColumn # Undefined
    /\ dataset # Undefined

\* C20: while the search bar is not shown the effective search text is empty
\* and the visible set is the whole candidate set.
C20_HiddenSearchEmpty ==
  (SubmenuRendered /\ ~Render.search) =>
    /\ searchInput = <<>>
    /\ filteredColumns = columns

====
